---- MODULE Spec2Model ----
(***************************************************************************)
(* Model of the medical intake pipeline of Homeogenie: the extraction      *)
(* coordinator (data_extraction.py), the normalizer (utils.py), the record *)
(* merge engine (history_manager.py), the turn driver (medical_chatbot.py) *)
(* and the request handler with its record store (api.py).                 *)
(*                                                                         *)
(* Python values are tagged records, so that values of different Python    *)
(* types can be compared.  A Python string is a sequence of tokens: single *)
(* characters, or a string literal of the source taken whole.  A number is *)
(* fixed-point with three decimals: N(n) stands for n/1000.                *)
(***************************************************************************)
EXTENDS Integers, Sequences, FiniteSets, TLC

VARIABLES
    chatbot,            \* the object DataExtractor.__init__ received as chatbot
    patient_histories,  \* api.py: patient_histories, patient id -> PatientHistory
    clock,              \* what datetime.now() returned last; each call returns more
    pc,                 \* position of the request being handled
    request,            \* the ChatMessage being handled
    extracted_info,     \* medical_chatbot.py:161, the result of extract_information
    gen,                \* what the generator call of this turn did
    llm_response,       \* data_extraction.py:46, the text the generator returned
    before,             \* the record as it was when update_history was entered
    data_updated,       \* medical_chatbot.py:162, what update_history returned
                        \* (the five above are locals of the turn: reset at its end)
    chat_response,      \* the ChatResponse of the last finished turn
    tasks,              \* the requests sent to the server, each with the state
                        \* of its chat_history_endpoint coroutine
    completion          \* the frame of a call of MedicalChatbot.get_completion
                        \* followed attempt by attempt

turn_vars == <<chatbot, patient_histories, clock, pc, request, extracted_info,
               gen, llm_response, before, data_updated, chat_response>>

vars == <<turn_vars, tasks, completion>>

----------------------------------------------------------------------------
(* Python values *)

Null == [t |-> "null"]

\* No call of get_completion is being followed
NoCompletion == [status |-> "none"]
S(tokens) == [t |-> "str", s |-> tokens]
N(thousandths) == [t |-> "num", n |-> thousandths]
B(b) == [t |-> "bool", b |-> b]
L(items) == [t |-> "list", l |-> items]
D(f) == [t |-> "dict", d |-> f]

\* bool(v)
Truthy(v) ==
    CASE v.t = "null" -> FALSE
      [] v.t = "str"  -> v.s # <<>>
      [] v.t = "num"  -> v.n # 0
      [] v.t = "bool" -> v.b
      [] v.t = "list" -> v.l # <<>>
      [] v.t = "dict" -> DOMAIN v.d # {}

\* key in d, for a dict d
Has(v, key) == key \in DOMAIN v.d

\* d.get(key, default), for a dict d
Get(v, key, default) == IF key \in DOMAIN v.d THEN v.d[key] ELSE default

\* d[key] = value, for a dict d
Put(v, key, value) ==
    D([k \in DOMAIN v.d \cup {key} |-> IF k = key THEN value ELSE v.d[k]])

\* str.strip() is non-empty: some token is not white space
Whitespace == {" ", "\t", "\n"}
StripTruthy(v) == \E i \in 1..Len(v.s) : v.s[i] \notin Whitespace

\* f"{v}"
Fmt(v) ==
    CASE v.t = "str"  -> v.s
      [] v.t = "null" -> <<"None">>
      [] OTHER        -> <<"<repr>">>

Range(seq) == {seq[i] : i \in 1..Len(seq)}

IsPrefix(a, b) == Len(a) <= Len(b) /\ SubSeq(b, 1, Len(a)) = a

NoDuplicates(seq) == \A i, j \in 1..Len(seq) : seq[i] = seq[j] => i = j

\* sep.join(parts), for a list of token sequences
RECURSIVE Join(_, _)
Join(parts, sep) ==
    IF parts = <<>> THEN <<>>
    ELSE IF Len(parts) = 1 THEN parts[1]
    ELSE parts[1] \o sep \o Join(Tail(parts), sep)

----------------------------------------------------------------------------
(* models.py: PatientHistory, and the sections of MedicalChatbot.__init__ *)

None == "None"

sections == <<"basic_info", "medications", "allergies", "chronic_conditions",
              "surgeries", "family_history">>

Sections == Range(sections)

ListFields == {"medications", "allergies", "chronic_conditions", "surgeries",
               "family_history"}

BasicFields == <<"name", "age", "gender", "height", "weight">>

PatientHistory(patient_id, now) ==
    [patient_id         |-> patient_id,
     name               |-> Null,
     age                |-> Null,
     gender             |-> Null,
     height             |-> Null,
     weight             |-> Null,
     medications        |-> <<>>,
     allergies          |-> <<>>,
     chronic_conditions |-> <<>>,
     surgeries          |-> <<>>,
     family_history     |-> <<>>,
     last_updated       |-> now,
     current_section    |-> "basic_info",
     completion_status  |-> [s \in Sections |-> FALSE]]

----------------------------------------------------------------------------
(* history_manager.py: the cleaning operation.  An operation that can     *)
(* raise returns [exc |-> TRUE, ...] with what it had done by then.        *)

Unknown == S(<<"Unknown">>)

\* The loop of _clean_list: item.strip() raises AttributeError for an entry
\* that is not a string (evaluated only when the entry is not in seen).
RECURSIVE _clean_list_loop(_, _, _)
_clean_list_loop(items, i, unique_items) ==
    IF i > Len(items) THEN [exc |-> FALSE, v |-> unique_items]
    ELSE LET item == items[i] IN
         IF item \in Range(unique_items)
         THEN _clean_list_loop(items, i + 1, unique_items)
         ELSE IF item.t # "str" THEN [exc |-> TRUE, v |-> unique_items]
         ELSE IF StripTruthy(item)
              THEN _clean_list_loop(items, i + 1, Append(unique_items, item))
              ELSE _clean_list_loop(items, i + 1, unique_items)

\* Faulty variant: of equal entries the last one is kept, not the first
_clean_list_keeps_last(items) ==
    LET last(i) == \A j \in (i + 1)..Len(items) : items[j] # items[i]
        F[i \in 0..Len(items)] ==
            IF i = 0 THEN <<>>
            ELSE IF last(i) /\ StripTruthy(items[i]) THEN Append(F[i - 1], items[i])
            ELSE F[i - 1]
    IN  [exc |-> FALSE, v |-> F[Len(items)]]

_clean_list(items) == _clean_list_loop(items, 1, <<>>)

RECURSIVE _clean_allergies_loop(_, _, _)
_clean_allergies_loop(allergies, i, unique_allergies) ==
    IF i > Len(allergies) THEN [exc |-> FALSE, v |-> unique_allergies]
    ELSE LET allergy == allergies[i] IN
         IF allergy \in Range(unique_allergies)
         THEN _clean_allergies_loop(allergies, i + 1, unique_allergies)
         ELSE IF allergy.t # "str" THEN [exc |-> TRUE, v |-> unique_allergies]
         ELSE IF ~StripTruthy(allergy)
              THEN _clean_allergies_loop(allergies, i + 1, unique_allergies)
         ELSE IF allergy = Unknown /\ unique_allergies # <<>>
              THEN _clean_allergies_loop(allergies, i + 1, unique_allergies)
              ELSE _clean_allergies_loop(allergies, i + 1,
                                         Append(unique_allergies, allergy))

\* Faulty variant: a list that is one sentinel is emptied
_clean_allergies_single_sentinel(allergies) ==
    IF \A i \in 1..Len(allergies) : allergies[i] = Unknown
    THEN [exc |-> FALSE, v |-> IF Len(allergies) > 1 THEN <<Unknown>> ELSE <<>>]
    ELSE _clean_allergies_loop(allergies, 1, <<>>)

_clean_allergies(allergies) ==
    IF \A i \in 1..Len(allergies) : allergies[i] = Unknown
    THEN [exc |-> FALSE, v |-> IF allergies # <<>> THEN <<Unknown>> ELSE <<>>]
    ELSE _clean_allergies_loop(allergies, 1, <<>>)

\* The five assignments are made in order; one that raises leaves the
\* earlier ones made.
clean_patient_history(history) ==
    LET m == _clean_list(history.medications)
        h1 == [history EXCEPT !.medications = m.v]
        a == _clean_allergies(h1.allergies)
        h2 == [h1 EXCEPT !.allergies = a.v]
        c == _clean_list(h2.chronic_conditions)
        h3 == [h2 EXCEPT !.chronic_conditions = c.v]
        s == _clean_list(h3.surgeries)
        h4 == [h3 EXCEPT !.surgeries = s.v]
        f == _clean_list(h4.family_history)
        h5 == [h4 EXCEPT !.family_history = f.v]
    IN  IF m.exc THEN [exc |-> TRUE, h |-> history]
        ELSE IF a.exc THEN [exc |-> TRUE, h |-> h1]
        ELSE IF c.exc THEN [exc |-> TRUE, h |-> h2]
        ELSE IF s.exc THEN [exc |-> TRUE, h |-> h3]
        ELSE IF f.exc THEN [exc |-> TRUE, h |-> h4]
        ELSE [exc |-> FALSE, h |-> h5]

----------------------------------------------------------------------------
(* history_manager.py: the merge.  The display string of an item is        *)
(* [k |-> "add", v |-> value], [k |-> "skip"] or [k |-> "raise"].          *)

Present(item, key) == Has(item, key) /\ Truthy(item.d[key])

\* " - ".join(components): TypeError when the first component is not a string
Joined(first, rest) ==
    IF first.t # "str" THEN [k |-> "raise"]
    ELSE [k |-> "add", v |-> S(Join(<<first.s>> \o rest, <<" - ">>))]

Labelled(item, key, label) ==
    IF Present(item, key) THEN <<<<label>> \o Fmt(item.d[key])>> ELSE <<>>

\* history_manager.py:111-117; None + str raises TypeError
medication_str(med) ==
    LET med_name == Get(med, "name", S(<<"Unknown medication">>))
        rest == (IF Present(med, "dosage") THEN <<Fmt(med.d["dosage"])>> ELSE <<>>)
                \o (IF Present(med, "frequency")
                    THEN <<Fmt(med.d["frequency"])>> ELSE <<>>)
    IN  IF rest = <<>> THEN [k |-> "add", v |-> med_name]
        ELSE Joined(med_name, rest)

\* history_manager.py:134-144
allergy_str(allergy) ==
    Joined(IF Present(allergy, "name") THEN allergy.d["name"]
           ELSE S(<<"Unknown allergy">>),
           Labelled(allergy, "severity", "Severity: ")
           \o Labelled(allergy, "reaction", "Reaction: "))

\* history_manager.py:161-171
condition_str(condition) ==
    Joined(IF Present(condition, "name") THEN condition.d["name"]
           ELSE S(<<"Unknown condition">>),
           Labelled(condition, "diagnosis_date", "Diagnosed: ")
           \o Labelled(condition, "status", "Status: "))

\* history_manager.py:188-200
surgery_str(surgery) ==
    Joined(IF Present(surgery, "type") THEN surgery.d["type"]
           ELSE IF Present(surgery, "name") THEN surgery.d["name"]
           ELSE S(<<"Unknown surgery">>),
           Labelled(surgery, "date", "Date: ")
           \o Labelled(surgery, "complications", "Complications: "))

\* history_manager.py:217-227
family_str(family_member) ==
    Joined(IF Present(family_member, "relation") THEN family_member.d["relation"]
           ELSE S(<<"Unknown relation">>),
           Labelled(family_member, "condition", "Condition: ")
           \o Labelled(family_member, "age_of_onset", "Age of onset: "))

\* The two branches of the loop body of an _update_<list> method
Canonical(section, item) ==
    IF item.t = "dict" THEN
        CASE section = "medications"        -> medication_str(item)
          [] section = "allergies"          -> allergy_str(item)
          [] section = "chronic_conditions" -> condition_str(item)
          [] section = "surgeries"          -> surgery_str(item)
          [] section = "family_history"     -> family_str(item)
    ELSE IF item.t = "str" /\ StripTruthy(item) THEN [k |-> "add", v |-> item]
    ELSE [k |-> "skip"]

\* extracted_data.get("items", []), wrapped when it is not a list
NewItems(extracted_data) ==
    LET new_items == Get(extracted_data, "items", L(<<>>))
    IN  IF new_items.t = "list" THEN new_items.l
        ELSE IF Truthy(new_items) THEN <<new_items>> ELSE <<>>

\* The for loop of an _update_<list> method: append when not present
RECURSIVE AppendLoop(_, _, _, _)
AppendLoop(section, list, new_items, i) ==
    IF i > Len(new_items) THEN [exc |-> FALSE, v |-> list]
    ELSE LET c == Canonical(section, new_items[i]) IN
         IF c.k = "raise" THEN [exc |-> TRUE, v |-> list]
         ELSE IF c.k = "add" /\ c.v \notin Range(list)
              THEN AppendLoop(section, Append(list, c.v), new_items, i + 1)
              ELSE AppendLoop(section, list, new_items, i + 1)

\* Faulty variant: the display string is appended without the membership test
RECURSIVE AppendAll(_, _, _, _)
AppendAll(section, list, new_items, i) ==
    IF i > Len(new_items) THEN [exc |-> FALSE, v |-> list]
    ELSE LET c == Canonical(section, new_items[i]) IN
         IF c.k = "raise" THEN [exc |-> TRUE, v |-> list]
         ELSE IF c.k = "add"
              THEN AppendAll(section, Append(list, c.v), new_items, i + 1)
              ELSE AppendAll(section, list, new_items, i + 1)

_update_medications_no_dedup(list, extracted_data) ==
    AppendAll("medications", list, NewItems(extracted_data), 1)

_update_medications(list, extracted_data) ==
    AppendLoop("medications", list, NewItems(extracted_data), 1)

\* Faulty variant: the new entries are put in front of the list
_update_allergies_in_front(list, extracted_data) ==
    LET r == AppendLoop("allergies", list, NewItems(extracted_data), 1)
    IN  [exc |-> r.exc, v |-> SubSeq(r.v, Len(list) + 1, Len(r.v)) \o list]

_update_allergies(list, extracted_data) ==
    AppendLoop("allergies", list, NewItems(extracted_data), 1)

_update_chronic_conditions(list, extracted_data) ==
    AppendLoop("chronic_conditions", list, NewItems(extracted_data), 1)

_update_surgeries(list, extracted_data) ==
    AppendLoop("surgeries", list, NewItems(extracted_data), 1)

_update_family_history(list, extracted_data) ==
    AppendLoop("family_history", list, NewItems(extracted_data), 1)

\* Faulty variant: a field is written only while the record has no value for it
_update_basic_info_keeps_first(history, extracted_data) ==
    LET new(key, old) == IF old = Null /\ Has(extracted_data, key)
                         THEN extracted_data.d[key] ELSE old
    IN  [history EXCEPT !.name   = new("name", @),
                        !.age    = new("age", @),
                        !.gender = new("gender", @),
                        !.height = new("height", @),
                        !.weight = new("weight", @)]

\* setattr for each of the five keys that is in extracted_data and not None
_update_basic_info(history, extracted_data) ==
    LET new(key, old) == IF Has(extracted_data, key) /\ extracted_data.d[key] # Null
                         THEN extracted_data.d[key] ELSE old
    IN  [history EXCEPT !.name   = new("name", @),
                        !.age    = new("age", @),
                        !.gender = new("gender", @),
                        !.height = new("height", @),
                        !.weight = new("weight", @)]

\* Faulty variant: the scan runs from the end of the list of sections
NextIncomplete_from_end(completion_status) ==
    IF \E i \in 1..Len(sections) : ~completion_status[sections[i]]
    THEN sections[CHOOSE i \in 1..Len(sections) :
                    /\ ~completion_status[sections[i]]
                    /\ \A j \in (i + 1)..Len(sections) : completion_status[sections[j]]]
    ELSE None

\* next(s for s in self.sections if not completion_status.get(s, False)), or None
NextIncomplete(completion_status) ==
    IF \E i \in 1..Len(sections) : ~completion_status[sections[i]]
    THEN sections[CHOOSE i \in 1..Len(sections) :
                    /\ ~completion_status[sections[i]]
                    /\ \A j \in 1..(i - 1) : completion_status[sections[j]]]
    ELSE None

\* Faulty variant: current_section is left alone when no section remains
_mark_section_complete_keeps_last(history, section) ==
    LET status == [history.completion_status EXCEPT ![section] = TRUE]
        next_incomplete == IF \E s \in Sections : ~status[s]
                           THEN sections[CHOOSE i \in 1..Len(sections) :
                                           /\ ~status[sections[i]]
                                           /\ \A j \in 1..(i - 1) : status[sections[j]]]
                           ELSE history.current_section
    IN  [history EXCEPT !.completion_status = status,
                        !.current_section = next_incomplete]

\* Faulty variant: completion_status is rebuilt with the one section marked
_mark_section_complete_rebuilds(history, section) ==
    LET status == [s \in Sections |-> s = section]
    IN  [history EXCEPT !.completion_status = status,
                        !.current_section =
                            IF section = sections[Len(sections)] THEN None
                            ELSE sections[1 + CHOOSE i \in 1..Len(sections) :
                                                sections[i] = section]]

\* Faulty variant: while a section is incomplete the record goes back to the
\* first section of the order
_mark_section_complete_restarts(history, section) ==
    LET status == [history.completion_status EXCEPT ![section] = TRUE]
    IN  [history EXCEPT !.completion_status = status,
                        !.current_section =
                            IF \E s \in Sections : ~status[s] THEN sections[1]
                            ELSE None]

_mark_section_complete(history, section) ==
    LET status == [history.completion_status EXCEPT ![section] = TRUE]
    IN  [history EXCEPT !.completion_status = status,
                        !.current_section = NextIncomplete(status)]

\* The if/elif chain of update_history over history.current_section
UpdateSection(history, section, extracted_data) ==
    LET list(r, field) == [exc |-> r.exc, h |-> [history EXCEPT ![field] = r.v]]
    IN  CASE section = "basic_info" ->
               [exc |-> FALSE, h |-> _update_basic_info(history, extracted_data)]
          [] section = "medications" ->
               list(_update_medications(history.medications, extracted_data),
                    "medications")
          [] section = "allergies" ->
               list(_update_allergies(history.allergies, extracted_data),
                    "allergies")
          [] section = "chronic_conditions" ->
               list(_update_chronic_conditions(history.chronic_conditions,
                                               extracted_data),
                    "chronic_conditions")
          [] section = "surgeries" ->
               list(_update_surgeries(history.surgeries, extracted_data),
                    "surgeries")
          [] section = "family_history" ->
               list(_update_family_history(history.family_history, extracted_data),
                    "family_history")
          [] OTHER -> [exc |-> FALSE, h |-> history]

\* Faulty variant: the section is marked complete before the payload is looked at
update_history_marks_first(history, info, now) ==
    LET section == history.current_section
        extracted_data == Get(info, "extracted", Null)
        marked == IF Truthy(Get(info, "is_complete", B(FALSE)))
                  THEN _mark_section_complete(history, section)
                  ELSE history
    IN  IF ~Truthy(extracted_data)
        THEN [exc |-> FALSE, h |-> marked, ret |-> FALSE]
        ELSE IF extracted_data.t # "dict"
        THEN [exc |-> TRUE, h |-> marked, ret |-> FALSE]
        ELSE LET u == UpdateSection(marked, section, extracted_data)
             IN  IF u.exc THEN [exc |-> TRUE, h |-> u.h, ret |-> FALSE]
                 ELSE [exc |-> FALSE,
                       h |-> [u.h EXCEPT !.last_updated = now],
                       ret |-> TRUE]

\* Faulty variant: the section is marked complete only when an _update method
\* changed the record
update_history_marks_on_change(history, info, now) ==
    LET section == history.current_section
        extracted_data == Get(info, "extracted", Null)
    IN  IF ~Truthy(extracted_data)
        THEN [exc |-> FALSE, h |-> history, ret |-> FALSE]
        ELSE IF extracted_data.t # "dict"
        THEN [exc |-> TRUE, h |-> history, ret |-> FALSE]
        ELSE LET u == UpdateSection(history, section, extracted_data)
                 marked == IF Truthy(Get(info, "is_complete", B(FALSE)))
                              /\ u.h # history
                           THEN _mark_section_complete(u.h, section)
                           ELSE u.h
             IN  IF u.exc THEN [exc |-> TRUE, h |-> u.h, ret |-> FALSE]
                 ELSE [exc |-> FALSE,
                       h |-> [marked EXCEPT !.last_updated = now],
                       ret |-> TRUE]

\* update_history: [exc, h, ret]; exc when an _update method raised, with
\* the entries it had appended by then left in the record.
update_history(history, info, now) ==
    LET section == history.current_section
        extracted_data == Get(info, "extracted", Null)
    IN  IF ~Truthy(extracted_data)
        THEN [exc |-> FALSE, h |-> history, ret |-> FALSE]
        ELSE IF extracted_data.t # "dict"
        THEN [exc |-> TRUE, h |-> history, ret |-> FALSE]
        ELSE LET u == UpdateSection(history, section, extracted_data)
                 marked == IF Truthy(Get(info, "is_complete", B(FALSE)))
                           THEN _mark_section_complete(u.h, section)
                           ELSE u.h
             IN  IF u.exc THEN [exc |-> TRUE, h |-> u.h, ret |-> FALSE]
                 ELSE [exc |-> FALSE,
                       h |-> [marked EXCEPT !.last_updated = now],
                       ret |-> TRUE]

----------------------------------------------------------------------------
(* utils.py: the normalizer.  [exc, v]: exc when a Python exception ends   *)
(* it, v the normalized dict.                                               *)

\* Faulty variant: is_complete is set to False whatever the data carries
DefaultFlags_forcing(d) ==
    LET d1 == Put(d, "is_complete", B(FALSE))
    IN  IF Has(d1, "needs_clarification") THEN d1
        ELSE Put(d1, "needs_clarification", B(FALSE))

\* utils.py:32-35: is_complete and needs_clarification default to False
DefaultFlags(d) ==
    LET d1 == IF Has(d, "is_complete") THEN d
              ELSE Put(d, "is_complete", B(FALSE))
    IN  IF Has(d1, "needs_clarification") THEN d1
        ELSE Put(d1, "needs_clarification", B(FALSE))

validate_and_normalize_extracted_data(data, section) ==
    LET d0 == IF Has(data, "extracted") THEN data ELSE Put(data, "extracted", D(<<>>))
        e0 == d0.d["extracted"]
        \* basic_info: a non-dict becomes {}, then the five fields default to None
        eb == IF e0.t = "dict" THEN e0 ELSE D(<<>>)
        basic == D([k \in DOMAIN eb.d \cup Range(BasicFields) |->
                      IF k \in DOMAIN eb.d THEN eb.d[k] ELSE Null])
        \* other sections: "items" not in extracted and extracted["items"] = ...
        \* raise TypeError when extracted is not a dict
        listed == IF ~Has(e0, "items") THEN Put(e0, "items", L(<<>>))
                  ELSE IF e0.d["items"].t = "list" THEN e0
                  ELSE IF Truthy(e0.d["items"])
                       THEN Put(e0, "items", L(<<e0.d["items"]>>))
                       ELSE Put(e0, "items", L(<<>>))
    IN  IF section = "basic_info"
        THEN [exc |-> FALSE, v |-> DefaultFlags(Put(d0, "extracted", basic))]
        ELSE IF e0.t # "dict" THEN [exc |-> TRUE, v |-> d0]
        ELSE [exc |-> FALSE, v |-> DefaultFlags(Put(d0, "extracted", listed))]

----------------------------------------------------------------------------
(* data_extraction.py *)

\* A text the generator returns is a string; a text that is a JSON document
\* carries the value json.loads gives for it.
JsonText(doc) == [t |-> "str", s |-> <<"<json>">>, doc |-> doc]

json_loads(text) ==
    IF "doc" \in DOMAIN text THEN [exc |-> FALSE, v |-> text.doc]
    ELSE [exc |-> TRUE, v |-> Null]

required_basic_fields == <<"name", "age">>

EmptyBasicInfo == D([k \in Range(BasicFields) |-> Null])

\* Faulty variant: needs_clarification is left false
_create_error_response_no_clarification(section, error_msg) ==
    D([extracted |-> D([items |-> IF section # "basic_info" THEN L(<<>>)
                                  ELSE EmptyBasicInfo]),
       is_complete |-> B(FALSE),
       needs_clarification |-> B(FALSE),
       error |-> error_msg,
       success |-> B(FALSE)])

\* Faulty variant: the payload of basic_info is used for every section
_create_error_response_basic_shape(section, error_msg) ==
    D([extracted |-> D([items |-> EmptyBasicInfo]),
       is_complete |-> B(FALSE),
       needs_clarification |-> B(TRUE),
       error |-> error_msg,
       success |-> B(FALSE)])

_create_error_response(section, error_msg) ==
    LET base ==
          [extracted |-> D([items |-> IF section # "basic_info" THEN L(<<>>)
                                      ELSE EmptyBasicInfo]),
           is_complete |-> B(FALSE),
           needs_clarification |-> B(TRUE),
           error |-> error_msg,
           success |-> B(FALSE)]
    IN  IF section = "basic_info"
        THEN Put(D(base), "clarification_message",
                 S(<<"Please provide your ", "name", " and ", "age",
                     " to continue. ">> \o Fmt(error_msg)
                   \o <<"For weight, please specify kg or lbs (e.g., '70 kg' or '150 lbs').">>))
        ELSE D(base)

\* extracted.get(field) not in [None, ""]
Provided(extracted, field) ==
    LET v == Get(extracted, field, Null) IN v # Null /\ v # S(<<>>)

\* [f for f in fields if not extracted.get(f)]
MissingFields(extracted, fields) ==
    LET F[i \in 0..Len(fields)] ==
          IF i = 0 THEN <<>>
          ELSE IF ~Truthy(Get(extracted, fields[i], Null))
               THEN Append(F[i - 1], fields[i]) ELSE F[i - 1]
    IN  F[Len(fields)]

\* Faulty variant: the generator's is_complete is kept
_validate_basic_info_completeness_trusting(data) == data

_validate_basic_info_completeness(data) ==
    IF ~Truthy(Get(data, "extracted", Null)) THEN data
    ELSE LET extracted == data.d["extracted"]
             is_complete == \A i \in 1..Len(required_basic_fields) :
                               Provided(extracted, required_basic_fields[i])
             missing_fields == MissingFields(extracted, required_basic_fields)
             d1 == Put(data, "is_complete", B(is_complete))
         IN  IF is_complete THEN d1
             ELSE Put(Put(d1, "needs_clarification", B(TRUE)),
                      "clarification_message",
                      S(<<"Please provide: ">>
                        \o Join([i \in 1..Len(missing_fields) |-> <<missing_fields[i]>>],
                                <<", ">>)
                        \o <<". ", "For weight, specify units (kg or lbs).">>))

\* Weight texts are sequences of single characters.
Digits == <<"0", "1", "2", "3", "4", "5", "6", "7", "8", "9">>

IsDigit(c) == c \in Range(Digits)

DigitValue(c) == (CHOOSE i \in 1..Len(Digits) : Digits[i] = c) - 1

\* str.lower(), on the letters of the weight texts
Lower(c) ==
    CASE c = "L" -> "l" [] c = "B" -> "b" [] c = "S" -> "s"
      [] c = "K" -> "k" [] c = "G" -> "g" [] OTHER -> c

\* sub in text
Contains(text, sub) ==
    \E i \in 1..(Len(text) - Len(sub) + 1) : SubSeq(text, i, i + Len(sub) - 1) = sub

\* The end of the run of digits that starts at i (i - 1 when there is none)
RECURSIVE DigitRunEnd(_, _)
DigitRunEnd(text, i) ==
    IF i <= Len(text) /\ IsDigit(text[i]) THEN DigitRunEnd(text, i + 1) ELSE i - 1

RECURSIVE DigitsValue(_, _, _)
DigitsValue(text, i, j) ==
    IF i > j THEN 0 ELSE DigitsValue(text, i, j - 1) * 10 + DigitValue(text[j])

RECURSIVE Pow10(_)
Pow10(k) == IF k = 0 THEN 1 ELSE 10 * Pow10(k - 1)

\* re.search(r'(\d+\.?\d*)', text): [found, m, d] for the number m / 10^d
NumberMatch(text) ==
    IF ~\E i \in 1..Len(text) : IsDigit(text[i]) THEN [found |-> FALSE]
    ELSE LET start == CHOOSE i \in 1..Len(text) :
                        IsDigit(text[i]) /\ \A j \in 1..(i - 1) : ~IsDigit(text[j])
             int_end == DigitRunEnd(text, start)
             dot == int_end + 1 <= Len(text) /\ text[int_end + 1] = "."
             frac_end == IF dot THEN DigitRunEnd(text, int_end + 2) ELSE int_end
             d == IF dot THEN frac_end - (int_end + 1) ELSE 0
         IN  [found |-> TRUE,
              m |-> DigitsValue(text, start, int_end) * Pow10(d)
                    + (IF dot THEN DigitsValue(text, int_end + 2, frac_end) ELSE 0),
              d |-> d]

\* Faulty variant: the quotient is cut, not rounded
RoundDiv_down(a, b) == a \div b

\* a / b rounded to the nearest integer, ties to even, for a >= 0 and b > 0
RoundDiv(a, b) ==
    LET q == a \div b
        r == a % b
    IN  IF 2 * r > b THEN q + 1
        ELSE IF 2 * r = b THEN q + (q % 2)
        ELSE q

\* 0.453592 as millionths
LbToKgMillionths == 453592

\* Faulty variant: pounds are not converted
WeightOfText_no_conversion(text) ==
    LET low == [i \in 1..Len(text) |-> Lower(text[i])]
        num == NumberMatch(low)
    IN  IF ~num.found THEN [exc |-> TRUE]
        ELSE [exc |-> FALSE, v |-> N(10 * RoundDiv(num.m * 100, Pow10(num.d)))]

\* round(weight, 2) of the text's number, in kg, as N: a value in thousandths
WeightOfText(text) ==
    LET low == [i \in 1..Len(text) |-> Lower(text[i])]
        num == NumberMatch(low)
        pounds == Contains(low, <<"l", "b">>)
                  \/ Contains(low, <<"p", "o", "u", "n", "d">>)
    IN  IF ~num.found THEN [exc |-> TRUE]
        ELSE [exc |-> FALSE,
              v |-> N(10 * (IF pounds
                            THEN RoundDiv(num.m * LbToKgMillionths, Pow10(num.d + 4))
                            ELSE RoundDiv(num.m * 100, Pow10(num.d))))]

\* Faulty variant: a weight that cannot be read is left in the payload
_normalize_weight_keeps_unreadable(data) ==
    IF ~Truthy(Get(data, "extracted", Null)) THEN data
    ELSE LET extracted == data.d["extracted"]
             weight == Get(extracted, "weight", Null)
             r == CASE weight.t = "str"  -> WeightOfText(weight.s)
                    [] weight.t = "num"  ->
                         [exc |-> FALSE, v |-> N(10 * RoundDiv(weight.n, 10))]
                    [] weight.t = "bool" ->
                         [exc |-> FALSE, v |-> N(IF weight.b THEN 1000 ELSE 0)]
                    [] OTHER -> [exc |-> TRUE]
             failed == Put(data, "needs_clarification", B(TRUE))
         IN  IF weight = Null THEN data
             ELSE IF ~r.exc THEN Put(data, "extracted", Put(extracted, "weight", r.v))
             ELSE IF Has(failed, "clarification_message") THEN failed
             ELSE Put(failed, "clarification_message",
                      S(<<"Please provide weight in kg or lbs (e.g., '70 kg' or '150 lbs')">>))

\* Faulty variant: a weight that cannot be read takes back is_complete
_normalize_weight_reopens(data) ==
    IF ~Truthy(Get(data, "extracted", Null)) THEN data
    ELSE LET extracted == data.d["extracted"]
             weight == Get(extracted, "weight", Null)
             r == CASE weight.t = "str"  -> WeightOfText(weight.s)
                    [] weight.t = "num"  ->
                         [exc |-> FALSE, v |-> N(10 * RoundDiv(weight.n, 10))]
                    [] weight.t = "bool" ->
                         [exc |-> FALSE, v |-> N(IF weight.b THEN 1000 ELSE 0)]
                    [] OTHER -> [exc |-> TRUE]
             failed == Put(Put(Put(data, "extracted", Put(extracted, "weight", Null)),
                               "needs_clarification", B(TRUE)),
                           "is_complete", B(FALSE))
         IN  IF weight = Null THEN data
             ELSE IF ~r.exc THEN Put(data, "extracted", Put(extracted, "weight", r.v))
             ELSE IF Has(failed, "clarification_message") THEN failed
             ELSE Put(failed, "clarification_message",
                      S(<<"Please provide weight in kg or lbs (e.g., '70 kg' or '150 lbs')">>))

_normalize_weight(data) ==
    IF ~Truthy(Get(data, "extracted", Null)) THEN data
    ELSE LET extracted == data.d["extracted"]
             weight == Get(extracted, "weight", Null)
             r == CASE weight.t = "str"  -> WeightOfText(weight.s)
                    [] weight.t = "num"  ->
                         [exc |-> FALSE, v |-> N(10 * RoundDiv(weight.n, 10))]
                    [] weight.t = "bool" ->
                         [exc |-> FALSE, v |-> N(IF weight.b THEN 1000 ELSE 0)]
                    [] OTHER -> [exc |-> TRUE]
             failed == Put(Put(data, "extracted", Put(extracted, "weight", Null)),
                           "needs_clarification", B(TRUE))
         IN  IF weight = Null THEN data
             ELSE IF ~r.exc THEN Put(data, "extracted", Put(extracted, "weight", r.v))
             ELSE IF Has(failed, "clarification_message") THEN failed
             ELSE Put(failed, "clarification_message",
                      S(<<"Please provide weight in kg or lbs (e.g., '70 kg' or '150 lbs')">>))

\* _parse_response: [exc, v] with exc "none", "json" (JSONDecodeError, re-raised)
\* or "extraction" (DataExtractionError)
_parse_response(response, section) ==
    LET parsed == json_loads(response)
        extracted_data == parsed.v
        normalized == validate_and_normalize_extracted_data(extracted_data, section)
    IN  IF parsed.exc THEN [exc |-> "json", v |-> Null]
        ELSE IF extracted_data.t # "dict" THEN [exc |-> "extraction", v |-> Null]
        ELSE IF ~Has(extracted_data, "extracted") THEN [exc |-> "extraction", v |-> Null]
        ELSE IF normalized.exc THEN [exc |-> "extraction", v |-> Null]
        ELSE [exc |-> "none", v |-> normalized.v]

----------------------------------------------------------------------------
(* The generator.  MedicalChatbot.get_completion takes messages and        *)
(* temperature; a chatbot with the interface                                *)
(* complete(messages, temperature, maxRetries) takes max_retries as well.  *)

max_retries == 3

get_completion_parameters(bot) ==
    IF bot = "MedicalChatbot" THEN {"messages", "temperature"}
    ELSE {"messages", "temperature", "max_retries"}

\* The retry loop: the attempts before attempt number `failures` raise, that
\* one returns `text`.  [exc, v, attempts]
RECURSIVE get_completion_loop(_, _, _)
get_completion_loop(attempt, failures, text) ==
    IF attempt >= max_retries THEN [exc |-> TRUE, v |-> Null, attempts |-> attempt]
    ELSE IF attempt >= failures
         THEN [exc |-> FALSE, v |-> text, attempts |-> attempt + 1]
         ELSE IF attempt < max_retries - 1
              THEN get_completion_loop(attempt + 1, failures, text)
              ELSE [exc |-> TRUE, v |-> Null, attempts |-> attempt + 1]

\* A keyword the method does not take is a TypeError before the body runs
get_completion(bot, keywords, failures, text) ==
    IF ~(keywords \subseteq get_completion_parameters(bot))
    THEN [exc |-> TRUE, v |-> Null, attempts |-> 0]
    ELSE get_completion_loop(0, failures, text)

\* _get_chatbot_response: every exception becomes a DataExtractionError.
\* [exc, v, gen], gen saying what the generator call did.
_get_chatbot_response(bot, failures, text) ==
    LET r == get_completion(bot, {"messages", "temperature", "max_retries"},
                            failures, text)
    IN  IF r.exc
        THEN [exc |-> TRUE, v |-> Null,
              gen |-> IF r.attempts = 0 THEN "type_error" ELSE "failed"]
        ELSE IF ~Truthy(r.v) THEN [exc |-> TRUE, v |-> Null, gen |-> "empty"]
        ELSE [exc |-> FALSE, v |-> r.v, gen |-> "text"]

\* extract_information: [result, gen].  It returns in every case.
extract_information(message, history, bot, failures, text) ==
    IF ~Truthy(message) \/ message.t # "str"
    THEN [result |-> _create_error_response("basic_info",
                        S(<<"Invalid message input - must be non-empty string">>)),
          gen |-> "not_called"]
    ELSE LET section == history.current_section
             response == _get_chatbot_response(bot, failures, text)
             parsed == _parse_response(response.v, section)
             extracted_data ==
                IF section = "basic_info"
                THEN _normalize_weight(_validate_basic_info_completeness(parsed.v))
                ELSE parsed.v
         IN  IF response.exc
             THEN [result |-> _create_error_response(section,
                                 S(<<"Data extraction failed: ",
                                     "Chatbot communication failed: ", response.gen>>)),
                   gen |-> response.gen]
             ELSE IF parsed.exc = "json"
             THEN [result |-> _create_error_response(section,
                                 S(<<"Invalid JSON response: ", "JSONDecodeError">>)),
                   gen |-> "malformed"]
             ELSE IF parsed.exc = "extraction"
             THEN [result |-> _create_error_response(section,
                                 S(<<"Data extraction failed: ",
                                     "Response validation failed">>)),
                   gen |-> "rejected"]
             ELSE [result |-> extracted_data, gen |-> "ok"]

----------------------------------------------------------------------------
(* Inputs: the messages of the patients and the texts of the generator *)

MaxClock == 7      \* calls of datetime.now() in a run
MaxEntries == 2    \* entries in the record's lists when an input adds more

PatientIds == {"p1"}

\* ChatMessage.message is a str: an empty one and a non-empty one
Messages == {S(<<>>), S(<<"h", "i">>)}

Str(token) == S(<<token>>)

Reply(extracted, flags) == JsonText(D([extracted |-> extracted] @@ flags))

Claims(is_complete) ==
    [is_complete |-> B(is_complete), needs_clarification |-> B(FALSE)]

BasicInfo(name, age, weight) ==
    D([name |-> name, age |-> age, gender |-> Str("f"),
       height |-> Str("170 cm"), weight |-> weight])

BasicInfoTexts ==
    { Reply(BasicInfo(Str("John"), N(30000), Null), Claims(TRUE)),
      Reply(BasicInfo(Str("John"), N(30000), Null), Claims(FALSE)),
      Reply(D([name |-> Str("John"), age |-> Null, gender |-> Null, height |-> Null,
               weight |-> S(<<"1", "5", "0", " ", "l", "b", "s">>)]), Claims(TRUE)),
      Reply(D([name |-> S(<<>>), age |-> N(0), note |-> Str("x")]), Claims(TRUE)),
      Reply(BasicInfo(Str("John"), N(30000), S(<<"h", "e", "a", "v", "y">>)),
            Claims(TRUE)),
      Reply(BasicInfo(Str("John"), N(30000), L(<<N(70000)>>)), Claims(FALSE)),
      Reply(D([age |-> N(30000), weight |-> N(68038)]), <<>>),
      Reply(Str("John, 30"), Claims(TRUE)) }

\* The first and the second sub-field of the items of a list section
FirstKey(section) ==
    CASE section = "surgeries" -> "type"
      [] section = "family_history" -> "relation"
      [] OTHER -> "name"

SecondKey(section) ==
    CASE section = "medications" -> "dosage"
      [] section = "allergies" -> "severity"
      [] section = "chronic_conditions" -> "diagnosis_date"
      [] section = "surgeries" -> "date"
      [] OTHER -> "condition"

ItemLists(section) ==
    LET a == D(FirstKey(section) :> Str("a"))
        ax == D(FirstKey(section) :> Str("a") @@ SecondKey(section) :> Str("x"))
        nx == D(FirstKey(section) :> Null @@ SecondKey(section) :> Str("x"))
    IN  { <<>>, <<a>>, <<a, Str("a")>>, <<ax, a>>, <<Str(" "), N(1000), ax>>,
          <<ax, nx>>, <<Unknown, D(<<>>)>> }

ListTexts(section) ==
    { Reply(D([items |-> L(il)]), Claims(c)) : il \in ItemLists(section), c \in BOOLEAN }
    \cup { Reply(D([items |-> Str("a")]), <<>>),
           Reply(D(<<>>), [is_complete |-> B(TRUE)]),
           Reply(Str("a"), Claims(TRUE)) }

\* Texts for every section: not JSON, empty, JSON that is no object, no 'extracted'
OtherTexts ==
    { Str("Sorry, I cannot help."), S(<<>>), JsonText(L(<<>>)),
      JsonText(D([is_complete |-> B(TRUE)])) }

Texts(section) ==
    OtherTexts \cup (IF section = "basic_info" THEN BasicInfoTexts
                     ELSE ListTexts(section))

TotalEntries(history) ==
    Len(history.medications) + Len(history.allergies)
    + Len(history.chronic_conditions) + Len(history.surgeries)
    + Len(history.family_history)

\* A text whose items can add entries to a list
AddsEntries(text) ==
    /\ text # Null
    /\ "doc" \in DOMAIN text
    /\ text.doc.t = "dict"
    /\ Has(text.doc, "extracted")
    /\ text.doc.d["extracted"].t = "dict"
    /\ Truthy(Get(text.doc.d["extracted"], "items", Null))

----------------------------------------------------------------------------
(* The turn: api.py chat_history_endpoint and MedicalChatbot.generate_response. *)
(* The endpoint is a coroutine that never awaits: a turn runs to its end    *)
(* before the next request is taken.                                        *)

NoRequest == [patient_id |-> None, message |-> Null]

NoResponse == [kind |-> "none", data_updated |-> FALSE]

Apology == [kind |-> "apology", data_updated |-> FALSE]

Completed == [kind |-> "completed", data_updated |-> FALSE]

Init ==
    /\ chatbot \in {"MedicalChatbot", "Generator"}
    /\ patient_histories = <<>>
    /\ clock = 0
    /\ pc = "idle"
    /\ request = NoRequest
    /\ extracted_info = Null
    /\ gen = "none"
    /\ llm_response = Null
    /\ before = Null
    /\ data_updated = FALSE
    /\ chat_response = NoResponse
    /\ tasks = <<>>
    /\ completion = NoCompletion

\* Faulty variant: the lists are objects that all the records share
Store_shared_lists(p, history) ==
    [q \in DOMAIN patient_histories \cup {p} |->
        IF q = p THEN history
        ELSE [patient_histories[q] EXCEPT
                !.medications = history.medications,
                !.allergies = history.allergies,
                !.chronic_conditions = history.chronic_conditions,
                !.surgeries = history.surgeries,
                !.family_history = history.family_history]]

\* patient_histories[p] = history; the other records are other objects
Store(p, history) ==
    [q \in DOMAIN patient_histories \cup {p} |->
        IF q = p THEN history ELSE patient_histories[q]]

\* Faulty variant: the turn goes on to the extraction when the record has no
\* current section
Begin_without_return(p, message, context_ok) ==
    /\ pc = "idle"
    /\ LET history == IF p \in DOMAIN patient_histories THEN patient_histories[p]
                      ELSE PatientHistory(p, clock + 1)
           created == p \notin DOMAIN patient_histories
           cleaned == clean_patient_history(history)
       IN  /\ ~Truthy(message) => TotalEntries(history) < MaxEntries
           /\ (created \/ cleaned.h.current_section # None) => clock < MaxClock
           /\ patient_histories' = Store(p, cleaned.h)
           /\ IF cleaned.exc \/ ~context_ok
              THEN /\ pc' = "idle"
                   /\ chat_response' = Apology
                   /\ request' = NoRequest
              ELSE /\ pc' = "extract"
                   /\ chat_response' = NoResponse
                   /\ request' = [patient_id |-> p, message |-> message]
           /\ clock' = IF created THEN clock + 1 ELSE clock
    /\ UNCHANGED <<chatbot, extracted_info, gen, llm_response, before, data_updated>>

\* api.py:30-36 and medical_chatbot.py:144-156: the record is created when
\* the id is new, cleaned, and the context is retrieved.
Begin(p, message, context_ok) ==
    /\ pc = "idle"
    /\ LET history == IF p \in DOMAIN patient_histories THEN patient_histories[p]
                      ELSE PatientHistory(p, clock + 1)
           created == p \notin DOMAIN patient_histories
           cleaned == clean_patient_history(history)
       IN  /\ ~Truthy(message) => TotalEntries(history) < MaxEntries
           /\ (created \/ cleaned.h.current_section # None) => clock < MaxClock
           /\ patient_histories' = Store(p, cleaned.h)
           /\ IF cleaned.exc \/ (cleaned.h.current_section # None /\ ~context_ok)
              THEN /\ pc' = "idle"
                   /\ chat_response' = Apology
                   /\ request' = NoRequest
              ELSE IF cleaned.h.current_section = None
              THEN /\ pc' = "idle"
                   /\ chat_response' = Completed
                   /\ request' = NoRequest
              ELSE /\ pc' = "extract"
                   /\ chat_response' = NoResponse
                   /\ request' = [patient_id |-> p, message |-> message]
           /\ clock' = IF created THEN clock + 1 ELSE clock
    /\ UNCHANGED <<chatbot, extracted_info, gen, llm_response, before, data_updated>>

\* Faulty variant: the extractor stores the basic-info fields it found in the
\* record it was given
Extract_stores(failures, text) ==
    /\ pc = "extract"
    /\ LET history == patient_histories[request.patient_id]
           r == extract_information(request.message, history, chatbot, failures, text)
           payload == Get(r.result, "extracted", Null)
       IN  /\ AddsEntries(text) => TotalEntries(history) < MaxEntries
           /\ extracted_info' = r.result
           /\ gen' = r.gen
           /\ llm_response' = IF r.gen \in {"not_called", "type_error", "failed"}
                              THEN Null ELSE text
           /\ patient_histories' =
                 Store(request.patient_id,
                       IF payload.t = "dict" THEN _update_basic_info(history, payload)
                       ELSE history)
    /\ pc' = "merge"
    /\ UNCHANGED <<chatbot, clock, request, before, data_updated, chat_response>>

\* medical_chatbot.py:161
Extract(failures, text) ==
    /\ pc = "extract"
    /\ LET history == patient_histories[request.patient_id]
           r == extract_information(request.message, history, chatbot, failures, text)
       IN  /\ AddsEntries(text) => TotalEntries(history) < MaxEntries
           /\ extracted_info' = r.result
           /\ gen' = r.gen
           /\ llm_response' = IF r.gen \in {"not_called", "type_error", "failed"}
                              THEN Null ELSE text
    /\ pc' = "merge"
    /\ UNCHANGED <<chatbot, patient_histories, clock, request, before, data_updated,
                   chat_response>>

\* medical_chatbot.py:162; an exception of update_history ends the turn
Merge ==
    /\ pc = "merge"
    /\ LET history == patient_histories[request.patient_id]
           u == update_history(history, extracted_info, clock + 1)
       IN  /\ patient_histories' = Store(request.patient_id, u.h)
           /\ IF u.exc
              THEN /\ pc' = "idle"
                   /\ chat_response' = Apology
                   /\ request' = NoRequest
                   /\ extracted_info' = Null
                   /\ gen' = "none"
                   /\ llm_response' = Null
                   /\ before' = Null
                   /\ data_updated' = FALSE
              ELSE /\ pc' = "respond"
                   /\ before' = history
                   /\ data_updated' = u.ret
                   /\ UNCHANGED <<chat_response, request, extracted_info, gen, llm_response>>
           /\ clock' = IF u.ret THEN clock + 1 ELSE clock
    /\ UNCHANGED chatbot

\* medical_chatbot.py:164-221: add_patient_data when data_updated, the reply of
\* the model, add_conversation; an exception of any of them ends the turn.
Respond(store_ok, failures) ==
    /\ pc = "respond"
    /\ LET reply == get_completion(chatbot, {"messages", "temperature"}, failures,
                                   Str("reply"))
       IN  chat_response' = IF store_ok /\ ~reply.exc
                            THEN [kind |-> "reply", data_updated |-> data_updated]
                            ELSE Apology
    /\ pc' = "idle"
    /\ request' = NoRequest
    /\ extracted_info' = Null
    /\ gen' = "none"
    /\ llm_response' = Null
    /\ before' = Null
    /\ data_updated' = FALSE
    /\ UNCHANGED <<chatbot, patient_histories, clock>>

\* What the generator can answer in the turn being handled: it fails every
\* attempt, or an attempt returns a text for the active section.
Answers ==
    IF pc = "extract"
    THEN {[failures |-> max_retries, text |-> Null]}
         \cup {[failures |-> f, text |-> text] :
                 f \in {0, max_retries - 1},
                 text \in Texts(patient_histories[request.patient_id].current_section)}
    ELSE {}

\* One request at a time is sent and handled to its end
Next ==
    /\ \/ \E p \in PatientIds, message \in Messages, context_ok \in BOOLEAN :
             Begin(p, message, context_ok)
       \/ \E answer \in Answers : Extract(answer.failures, answer.text)
       \/ Merge
       \/ \E store_ok \in BOOLEAN, failures \in 0..max_retries :
             Respond(store_ok, failures)
    /\ UNCHANGED <<tasks, completion>>

Spec == Init /\ [][Next]_vars

\* generate_response is sequential code: a turn that has begun goes on to its
\* end.  Whether a client sends another request is up to the client.
TurnStep == Next /\ pc # "idle"

FairSpec == Init /\ [][Next]_vars /\ WF_vars(TurnStep)

----------------------------------------------------------------------------
(* The operations of HistoryManager taken alone: clean_patient_history and *)
(* update_history applied once to a record and an extraction result drawn  *)
(* from bounded sets.                                                       *)

MaxLen == 3        \* entries of a list of the record that is cleaned

Lists(entries) == UNION {[1..n -> entries] : n \in 0..MaxLen}

\* Entries of a list field are strings (models.py: List[str]): concrete
\* ones, blank ones and the sentinel of the allergies.
ListEntries == {Str("a"), Str(" "), Unknown}

AllergyEntries == {Str("a"), Str("b"), S(<<>>), Unknown}

\* A record in section number k of sections: the sections before it are
\* complete.
RecordAt(k, meds, allergies, others) ==
    [PatientHistory("p1", 0) EXCEPT
        !.name = IF k > 1 THEN Str("John") ELSE Null,
        !.age = IF k > 1 THEN N(30000) ELSE Null,
        !.medications = meds,
        !.allergies = allergies,
        !.chronic_conditions = others,
        !.surgeries = others,
        !.family_history = others,
        !.current_section = sections[k],
        !.completion_status = [s \in Sections |->
                                 \E j \in 1..(k - 1) : sections[j] = s]]

\* Records to clean: any contents of the lists
CleanRecords ==
    { RecordAt(3, meds, allergies, others) :
        meds \in Lists(ListEntries), allergies \in Lists(AllergyEntries),
        others \in {<<Str("a"), Str("a")>>, <<Str(" "), Unknown, Unknown>>} }

\* Records to merge into: lists without duplicates and blanks
MergeRecords ==
    { RecordAt(k, list, list, <<>>) :
        k \in 1..Len(sections), list \in {<<>>, <<Str("a")>>} }

\* Extraction results: 'extracted' absent, None, empty, or with data; with
\* and without is_complete
OpResults ==
    { D(payload @@ flags) :
        payload \in { <<>>,
                      [extracted |-> Null],
                      [extracted |-> D(<<>>)],
                      [extracted |-> L(<<>>)],
                      [extracted |-> D([items |-> L(<<>>)])],
                      [extracted |-> D([items |-> L(<<Str("a"), Str("b")>>)])],
                      [extracted |-> D([name |-> Str("John"), age |-> N(30000)])] },
        flags \in { <<>>, [is_complete |-> B(TRUE)], [is_complete |-> B(FALSE)] } }

\* Records to extract from: a new one, and one whose sections are all
\* complete
CompleteRecord ==
    [RecordAt(Len(sections), <<Str("a")>>, <<Str("a")>>, <<Str("a")>>) EXCEPT
        !.current_section = None,
        !.completion_status = [s \in Sections |-> TRUE]]

ExtractRecords == {RecordAt(1, <<>>, <<>>, <<>>), CompleteRecord}

\* Weights the generator can return for basic_info, each with the number of
\* kilograms it stands for, in thousandths
WeightCases ==
    { [weight |-> S(<<"1", "5", "0", " ", "l", "b", "s">>), kg |-> 68040],
      [weight |-> S(<<"1", "5", "0", " ", "p", "o", "u", "n", "d", "s">>), kg |-> 68040],
      [weight |-> S(<<"1", "5", "0", " ", "L", "B", "S">>), kg |-> 68040],
      [weight |-> S(<<"2", ".", "5", " ", "l", "b">>), kg |-> 1130],
      [weight |-> S(<<"6", "8", ".", "0", "4">>), kg |-> 68040],
      [weight |-> S(<<"7", "0", " ", "k", "g">>), kg |-> 70000],
      [weight |-> S(<<"7", "0", ".">>), kg |-> 70000],
      [weight |-> S(<<"0", " ", "k", "g">>), kg |-> 0],
      [weight |-> N(68040), kg |-> 68040],
      [weight |-> N(68038), kg |-> 68040],
      [weight |-> N(70000), kg |-> 70000],
      [weight |-> N(0), kg |-> 0] }

\* Weights without a number, and of a type that is neither str nor a number
UnreadableWeights ==
    { S(<<"h", "e", "a", "v", "y">>), S(<<>>), S(<<" ", " ">>), L(<<>>),
      L(<<N(70000)>>), D(<<>>) }

OpWeights == {c.weight : c \in WeightCases} \cup UnreadableWeights \cup {B(TRUE)}

\* The generator's texts for basic_info: with and without the age, and with
\* a clarification_message of its own
WeightTexts ==
    { Reply(BasicInfo(Str("John"), age, weight), Claims(TRUE)) :
        age \in {N(30000), Null}, weight \in OpWeights }
    \cup { Reply(BasicInfo(Str("John"), N(30000), weight),
                 [is_complete |-> B(TRUE), needs_clarification |-> B(TRUE),
                  clarification_message |-> Str("What is your weight?")]) :
             weight \in UnreadableWeights }

OpTexts(section) ==
    IF section = "basic_info" THEN WeightTexts
    ELSE { Reply(D([items |-> L(<<Str("b")>>)]), Claims(c)) : c \in BOOLEAN }
         \cup { Str("Sorry, I cannot help.") }

OpInit ==
    /\ chatbot = "Generator"
    /\ clock = 0
    /\ pc = "op"
    /\ request = [patient_id |-> "p1", message |-> S(<<"h", "i">>)]
    /\ gen = "none"
    /\ llm_response = Null
    /\ before = Null
    /\ data_updated = FALSE
    /\ chat_response = NoResponse
    /\ tasks = <<>>
    /\ completion = NoCompletion
    /\ \/ /\ extracted_info = Null
          /\ \E r \in CleanRecords \cup ExtractRecords :
                patient_histories = [p \in {"p1"} |-> r]
       \/ /\ extracted_info \in OpResults
          /\ \E r \in MergeRecords : patient_histories = [p \in {"p1"} |-> r]

\* history = clean_patient_history(history)
CleanOp ==
    /\ pc = "op"
    /\ LET history == patient_histories[request.patient_id]
           cleaned == clean_patient_history(history)
       IN  /\ patient_histories' = Store(request.patient_id, cleaned.h)
           /\ before' = history
           /\ pc' = IF cleaned.exc THEN "raised" ELSE "cleaned"
    /\ UNCHANGED <<chatbot, clock, request, extracted_info, gen, llm_response, data_updated,
                   chat_response>>

\* data_updated = update_history(history, extracted_info)
MergeOp ==
    /\ pc = "op"
    /\ extracted_info # Null
    /\ LET history == patient_histories[request.patient_id]
           u == update_history(history, extracted_info, clock + 1)
       IN  /\ patient_histories' = Store(request.patient_id, u.h)
           /\ before' = history
           /\ data_updated' = u.ret
           /\ pc' = IF u.exc THEN "raised" ELSE "merged"
           /\ clock' = IF u.ret THEN clock + 1 ELSE clock
    /\ UNCHANGED <<chatbot, request, extracted_info, gen, llm_response, chat_response>>

\* extracted_info = extract_information(message, history, context), the
\* generator returning text at its first attempt
ExtractOp(text) ==
    /\ pc = "op"
    /\ extracted_info = Null
    /\ patient_histories[request.patient_id] \in ExtractRecords
    /\ LET history == patient_histories[request.patient_id]
           r == extract_information(request.message, history, chatbot, 0, text)
       IN  /\ extracted_info' = r.result
           /\ gen' = r.gen
           /\ llm_response' = text
           /\ before' = history
    /\ pc' = "extracted"
    /\ UNCHANGED <<chatbot, patient_histories, clock, request, data_updated,
                   chat_response>>

OpNext ==
    /\ \/ CleanOp
       \/ MergeOp
       \/ \E text \in OpTexts(patient_histories[request.patient_id].current_section) :
             ExtractOp(text)
    /\ UNCHANGED <<tasks, completion>>

OpSpec == OpInit /\ [][OpNext]_vars

----------------------------------------------------------------------------
(* The server: requests for several patients are sent while others are     *)
(* being handled.  Each request is a coroutine of chat_history_endpoint on *)
(* the event loop; the coroutine has no await and generate_response is a   *)
(* plain function, so the loop runs a coroutine from its start to its      *)
(* return before it starts another one.                                    *)

MaxTasks == 3      \* requests sent in a run

LoopPatients == {"p1", "p2"}

Task(p) == [patient_id |-> p, status |-> "pending", frame |-> Null]

\* The generator answers the extraction call for the active section, or
\* fails every attempt
LoopAnswers ==
    IF pc # "extract" THEN {}
    ELSE LET section == patient_histories[request.patient_id].current_section
         IN  {[failures |-> max_retries, text |-> Null]}
             \cup {[failures |-> 0, text |-> text] :
                     text \in IF section = "basic_info"
                              THEN {Reply(BasicInfo(Str("John"), N(30000), Null),
                                          Claims(TRUE))}
                              ELSE {Reply(D([items |-> L(<<Str("a")>>)]), Claims(c)) :
                                      c \in BOOLEAN}}

LoopInit ==
    /\ chatbot = "Generator"
    /\ patient_histories = <<>>
    /\ clock = 0
    /\ pc = "idle"
    /\ request = NoRequest
    /\ extracted_info = Null
    /\ gen = "none"
    /\ llm_response = Null
    /\ before = Null
    /\ data_updated = FALSE
    /\ chat_response = NoResponse
    /\ tasks = <<>>
    /\ completion = NoCompletion

\* A client sends a request; it waits for the event loop
Accept(p) ==
    /\ Len(tasks) < MaxTasks
    /\ tasks' = Append(tasks, Task(p))
    /\ UNCHANGED turn_vars

\* The coroutine that is running returns when the turn ends
Returned(ts) ==
    [i \in DOMAIN ts |->
        IF ts[i].status = "running" /\ pc' = "idle"
        THEN [ts[i] EXCEPT !.status = "done"] ELSE ts[i]]

\* The event loop, which runs no coroutine, starts the one of a request
Start(i) ==
    /\ tasks[i].status = "pending"
    /\ Begin(tasks[i].patient_id, S(<<"h", "i">>), TRUE)
    /\ tasks' = Returned([tasks EXCEPT ![i].status = "running"])

HandlerExtract ==
    /\ \E answer \in LoopAnswers : Extract(answer.failures, answer.text)
    /\ tasks' = Returned(tasks)

HandlerMerge ==
    /\ Merge
    /\ tasks' = Returned(tasks)

HandlerRespond ==
    /\ Respond(TRUE, 0)
    /\ tasks' = Returned(tasks)

\* Faulty variant: the coroutine awaits after the extraction and the event
\* loop is free for other coroutines until it is resumed
Suspend ==
    /\ pc = "merge"
    /\ tasks' = [i \in DOMAIN tasks |->
                   IF tasks[i].status = "running"
                   THEN [tasks[i] EXCEPT
                           !.status = "suspended",
                           !.frame = [request |-> request,
                                      extracted_info |-> extracted_info,
                                      gen |-> gen,
                                      llm_response |-> llm_response]]
                   ELSE tasks[i]]
    /\ pc' = "idle"
    /\ request' = NoRequest
    /\ extracted_info' = Null
    /\ gen' = "none"
    /\ llm_response' = Null
    /\ UNCHANGED <<chatbot, patient_histories, clock, before, data_updated,
                   chat_response>>

Resume(i) ==
    /\ pc = "idle"
    /\ tasks[i].status = "suspended"
    /\ tasks' = [tasks EXCEPT ![i].status = "running", ![i].frame = Null]
    /\ pc' = "merge"
    /\ request' = tasks[i].frame.request
    /\ extracted_info' = tasks[i].frame.extracted_info
    /\ gen' = tasks[i].frame.gen
    /\ llm_response' = tasks[i].frame.llm_response
    /\ UNCHANGED <<chatbot, patient_histories, clock, before, data_updated,
                   chat_response>>

LoopNext_with_await ==
    /\ \/ \E p \in LoopPatients : Accept(p)
       \/ \E i \in DOMAIN tasks : Start(i)
       \/ HandlerExtract
       \/ HandlerMerge
       \/ HandlerRespond
       \/ Suspend
       \/ \E i \in DOMAIN tasks : Resume(i)
    /\ UNCHANGED completion

LoopNext ==
    /\ \/ \E p \in LoopPatients : Accept(p)
       \/ \E i \in DOMAIN tasks : Start(i)
       \/ HandlerExtract
       \/ HandlerMerge
       \/ HandlerRespond
    /\ UNCHANGED completion

LoopSpec == LoopInit /\ [][LoopNext]_vars

----------------------------------------------------------------------------
(* MedicalChatbot.get_completion attempt by attempt.  self.max_retries is  *)
(* int(os.getenv("RETRY_ATTEMPTS", 3)); the content of a completion is a   *)
(* str or None.  log holds what each call of the client did.               *)

MaxRetries == 3    \* largest RETRY_ATTEMPTS of a run

Temperatures == {N(100), N(700)}

Contents == OtherTexts \cup BasicInfoTexts \cup ListTexts("medications") \cup {Null}

Raised == [t |-> "exception"]

Completion(retries, temperature) ==
    [status |-> "running", max_retries |-> retries, temperature |-> temperature,
     attempt |-> 0, log |-> <<>>, v |-> Null]

RetryInit ==
    /\ chatbot = "MedicalChatbot"
    /\ patient_histories = <<>>
    /\ clock = 0
    /\ pc = "idle"
    /\ request = NoRequest
    /\ extracted_info = Null
    /\ gen = "none"
    /\ llm_response = Null
    /\ before = Null
    /\ data_updated = FALSE
    /\ chat_response = NoResponse
    /\ tasks = <<>>
    /\ \E retries \in 0..MaxRetries, temperature \in Temperatures :
          completion = Completion(retries, temperature)

\* medical_chatbot.py:123-129: the call of the client returns a completion
CreateReturns(content) ==
    /\ completion.status = "running"
    /\ completion.attempt < completion.max_retries
    /\ completion' = [completion EXCEPT !.status = "returned",
                                        !.log = Append(@, content),
                                        !.v = content]
    /\ UNCHANGED <<turn_vars, tasks>>

\* Faulty variant: the first exception of the client is raised again
CreateRaises_gives_up ==
    /\ completion.status = "running"
    /\ completion.attempt < completion.max_retries
    /\ completion' = [completion EXCEPT !.status = "raised", !.log = Append(@, Raised)]
    /\ UNCHANGED <<turn_vars, tasks>>

\* medical_chatbot.py:130-135: the call of the client raises; continue unless
\* this was the last attempt
CreateRaises ==
    /\ completion.status = "running"
    /\ completion.attempt < completion.max_retries
    /\ completion' =
          IF completion.attempt < completion.max_retries - 1
          THEN [completion EXCEPT !.attempt = @ + 1, !.log = Append(@, Raised)]
          ELSE [completion EXCEPT !.status = "raised", !.log = Append(@, Raised)]
    /\ UNCHANGED <<turn_vars, tasks>>

\* medical_chatbot.py:136: range(self.max_retries) is used up, RuntimeError
LoopEnds ==
    /\ completion.status = "running"
    /\ completion.attempt >= completion.max_retries
    /\ completion' = [completion EXCEPT !.status = "raised"]
    /\ UNCHANGED <<turn_vars, tasks>>

RetryNext ==
    \/ \E content \in Contents : CreateReturns(content)
    \/ CreateRaises
    \/ LoopEnds

\* The loop is sequential code: a step that can be taken is taken
RetrySpec == RetryInit /\ [][RetryNext]_vars /\ WF_vars(RetryNext)

----------------------------------------------------------------------------
(* Properties *)

Known == DOMAIN patient_histories

\* The record of the turn being handled (pc is not "idle")
Current == patient_histories[request.patient_id]

\* The order of the sections as the specification gives it
CanonicalOrder == <<"basic_info", "medications", "allergies", "chronic_conditions",
                    "surgeries", "family_history">>

AllComplete(history) ==
    \A i \in 1..Len(CanonicalOrder) : history.completion_status[CanonicalOrder[i]]

ResultIsComplete == Truthy(Get(extracted_info, "is_complete", B(FALSE)))

\* C1: in every state of every record, current_section is None if and only
\* if every entry of completion_status is true.
C1_NoneIffAllComplete ==
    \A p \in Known :
        (patient_histories[p].current_section = None) <=> AllComplete(patient_histories[p])

\* A turn has just completed the last section: the record is at None.
C1_Witness ==
    /\ pc = "respond"
    /\ before.current_section = "family_history"
    /\ Current.current_section = None
    /\ AllComplete(Current)

\* C2: a merge with is_complete true that returns has set the completion flag
\* of the section that was active, and current_section is the first section of
\* the canonical order whose flag is false, None when there is no such section.
C2_CompleteAdvancesToFirstIncomplete ==
    (pc = "respond" /\ ResultIsComplete) =>
        /\ Current.completion_status[before.current_section]
        /\ IF AllComplete(Current) THEN Current.current_section = None
           ELSE \E i \in 1..Len(CanonicalOrder) :
                   /\ Current.current_section = CanonicalOrder[i]
                   /\ ~Current.completion_status[CanonicalOrder[i]]
                   /\ \A j \in 1..(i - 1) : Current.completion_status[CanonicalOrder[j]]

\* With only basic_info complete, medications is marked complete and the
\* merge advances to allergies.
C2_Witness ==
    /\ pc = "respond"
    /\ ResultIsComplete
    /\ before.current_section = "medications"
    /\ \A s \in Sections : before.completion_status[s] <=> s = "basic_info"
    /\ Current.current_section = "allergies"

\* C3: no step resets a completion flag: a flag that is true before a step is
\* true after it, and no record is dropped.
C3_CompletionFlagsStay ==
    [][\A p \in Known :
          /\ p \in DOMAIN patient_histories'
          /\ \A s \in Sections :
                patient_histories[p].completion_status[s]
                    => patient_histories'[p].completion_status[s]]_vars

\* Two sections are complete and a later turn, which does not complete a
\* section, has merged.
C3_Witness ==
    /\ pc = "respond"
    /\ ~ResultIsComplete
    /\ Current.completion_status["basic_info"]
    /\ Current.completion_status["medications"]
    /\ Current.current_section = "allergies"

\* C4: no list of a record holds the same entry twice.
C4_NoDuplicateEntries ==
    \A p \in Known : \A f \in ListFields : NoDuplicates(patient_histories[p][f])

\* A merge has handled an extraction that names one item twice, an item the
\* list already held from an earlier turn.
C4_Witness ==
    /\ pc = "respond"
    /\ before.current_section \in ListFields
    /\ gen = "ok"
    /\ LET f == before.current_section
           items == NewItems(extracted_info.d["extracted"])
       IN  /\ Len(items) = 2
           /\ Canonical(f, items[1]).k = "add"
           /\ Canonical(f, items[1]) = Canonical(f, items[2])
           /\ Canonical(f, items[1]).v \in Range(before[f])
           /\ Current[f] = before[f]

\* The index of the first item of the extraction whose display string is entry
FirstAppearance(f, items, entry) ==
    CHOOSE i \in 1..Len(items) :
        /\ Canonical(f, items[i]) = [k |-> "add", v |-> entry]
        /\ \A j \in 1..(i - 1) : Canonical(f, items[j]) # [k |-> "add", v |-> entry]

\* C5: the merge step (also one that raises) keeps every list as a prefix of
\* what it becomes; the entries it adds are display strings of the items of
\* the extraction, in the order of their first appearance; the lists of the
\* other sections stay as they are.
C5_MergeOnlyAppends ==
    [][pc = "merge" =>
        LET old == patient_histories[request.patient_id]
            new == patient_histories'[request.patient_id]
            extracted == Get(extracted_info, "extracted", Null)
            items == IF extracted.t = "dict" THEN NewItems(extracted) ELSE <<>>
        IN  \A f \in ListFields :
              /\ IsPrefix(old[f], new[f])
              /\ f # old.current_section => new[f] = old[f]
              /\ \A a \in (Len(old[f]) + 1)..Len(new[f]) :
                    /\ \E i \in 1..Len(items) :
                          Canonical(f, items[i]) = [k |-> "add", v |-> new[f][a]]
                    /\ \A b \in (a + 1)..Len(new[f]) :
                          FirstAppearance(f, items, new[f][a])
                              < FirstAppearance(f, items, new[f][b])]_vars

\* A merge has appended two entries to a list that held one.
C5_Witness ==
    /\ pc = "respond"
    /\ before.current_section \in ListFields
    /\ Len(before[before.current_section]) = 1
    /\ Len(Current[before.current_section]) = 3

\* C6: for basic_info the result of extract_information has is_complete true
\* only if name and age are neither None nor ""; when is_complete is false,
\* needs_clarification is true and clarification_message names every required
\* field that is None, "" or absent.
C6_BasicInfoGate ==
    (pc = "merge" /\ Current.current_section = "basic_info") =>
        LET extracted == extracted_info.d["extracted"]
            provided(f) == /\ Has(extracted, f)
                           /\ extracted.d[f] # Null
                           /\ extracted.d[f] # S(<<>>)
        IN  /\ ResultIsComplete => provided("name") /\ provided("age")
            /\ ~ResultIsComplete =>
                  /\ extracted_info.d["needs_clarification"] = B(TRUE)
                  /\ Has(extracted_info, "clarification_message")
                  /\ \A f \in {"name", "age"} :
                        ~provided(f) =>
                            f \in Range(extracted_info.d["clarification_message"].s)

\* The generator returned a name and no age (its only such text claims
\* is_complete true): the result is not complete and asks for the age.
C6_Witness ==
    /\ pc = "merge"
    /\ Current.current_section = "basic_info"
    /\ gen = "ok"
    /\ Get(extracted_info.d["extracted"], "name", Null) = Str("John")
    /\ Get(extracted_info.d["extracted"], "age", Null) = Null
    /\ ~ResultIsComplete
    /\ "age" \in Range(extracted_info.d["clarification_message"].s)

\* The empty payload of a section
Placeholder(section) ==
    IF section = "basic_info"
    THEN D([name |-> Null, age |-> Null, gender |-> Null, height |-> Null,
            weight |-> Null])
    ELSE D([items |-> L(<<>>)])

\* C7: when the generator's text is not JSON, the result has is_complete false,
\* needs_clarification true and the empty payload of the active section.
C7_MalformedGivesPlaceholder ==
    (pc = "merge" /\ gen = "malformed") =>
        /\ extracted_info.d["is_complete"] = B(FALSE)
        /\ extracted_info.d["needs_clarification"] = B(TRUE)
        /\ extracted_info.d["extracted"] = Placeholder(Current.current_section)

C10_InputErrorIsNoOp ==
    /\ (pc = "merge" /\ gen = "not_called") =>
          extracted_info.d["extracted"] = Placeholder(Current.current_section)
    /\ (pc = "respond" /\ gen = "not_called") =>
          /\ \A f \in ListFields : Current[f] = before[f]
          /\ \A i \in 1..Len(BasicFields) :
                Current[BasicFields[i]] = before[BasicFields[i]]

\* The blank test of the cleaning loops: item.strip() is empty
Blank(entry) == ~StripTruthy(entry)

\* Index of the first appearance of entry in seq
FirstIndex(seq, entry) ==
    CHOOSE i \in 1..Len(seq) : seq[i] = entry /\ \A j \in 1..(i - 1) : seq[j] # entry

\* sub is seq with some of its entries left out
RECURSIVE IsSubsequence(_, _)
IsSubsequence(sub, seq) ==
    IF sub = <<>> THEN TRUE
    ELSE IF seq = <<>> THEN FALSE
    ELSE IF Head(sub) = Head(seq) THEN IsSubsequence(Tail(sub), Tail(seq))
    ELSE IsSubsequence(sub, Tail(seq))

\* C11: clean is idempotent: cleaning a record that clean returned gives
\* the same record, and does not raise.
C11_CleanIdempotent ==
    pc = "cleaned" =>
        clean_patient_history(Current) = [exc |-> FALSE, h |-> Current]

\* The first clean removed a duplicate, a blank and a sentinel that came
\* after a concrete entry.
C11_Witness ==
    /\ pc = "cleaned"
    /\ before.allergies = <<Str("a"), Unknown, Str("a")>>
    /\ before.medications = <<Str(" "), Unknown, Unknown>>
    /\ Current.allergies = <<Str("a")>>
    /\ Current.medications = <<Unknown>>

\* C12: for every list field the cleaned list is a subsequence of the
\* original without blanks and without duplicates, which holds every entry
\* of the original that is not blank and not the sentinel of the allergies,
\* in the order of first appearance; everything but the lists is unchanged.
C12_CleanRemovesOnlyNoise ==
    pc = "cleaned" =>
        /\ \A f \in ListFields :
              LET old == before[f]
                  new == Current[f]
                  kept == { e \in Range(old) :
                              ~Blank(e) /\ ~(f = "allergies" /\ e = Unknown) }
              IN  /\ IsSubsequence(new, old)
                  /\ NoDuplicates(new)
                  /\ \A i \in 1..Len(new) : ~Blank(new[i])
                  /\ kept \subseteq Range(new)
                  /\ \A d, e \in kept :
                        FirstIndex(old, d) < FirstIndex(old, e)
                            => FirstIndex(new, d) < FirstIndex(new, e)
        /\ [Current EXCEPT !.medications = before.medications,
                           !.allergies = before.allergies,
                           !.chronic_conditions = before.chronic_conditions,
                           !.surgeries = before.surgeries,
                           !.family_history = before.family_history] = before

\* Two concrete allergies with a sentinel between them are kept in their
\* order; repeats and blanks of the other lists are removed.
C12_Witness ==
    /\ pc = "cleaned"
    /\ before.allergies = <<Str("b"), Unknown, Str("a")>>
    /\ before.medications = <<Str("a"), Str(" "), Str("a")>>
    /\ before.surgeries = <<Str(" "), Unknown, Unknown>>
    /\ Current.allergies = <<Str("b"), Str("a")>>
    /\ Current.medications = <<Str("a")>>
    /\ Current.surgeries = <<Unknown>>
    /\ Current.name = Str("John")

\* A basic-info field or a list of the record differs
DataChanged(old, new) ==
    \/ \E i \in 1..Len(BasicFields) : old[BasicFields[i]] # new[BasicFields[i]]
    \/ \E f \in ListFields : old[f] # new[f]

\* C13: update_history returns true if and only if it changed a basic-info
\* field or a list of the record.
C13_ReturnsWhetherChanged ==
    pc \in {"respond", "merged"} => (data_updated <=> DataChanged(before, Current))

\* extracted_info.get("extracted") is absent, None or empty
NoPayload == ~Truthy(Get(extracted_info, "extracted", Null))

\* C14: update_history applied to a result whose 'extracted' is absent or
\* empty returns false and leaves the whole record as it was, whatever
\* is_complete says.
C14_NoPayloadNoChange ==
    (pc = "merged" /\ NoPayload) => (~data_updated /\ Current = before)

\* The result says is_complete and carries an empty dict as payload; the
\* active section stays incomplete.
C14_Witness ==
    /\ pc = "merged"
    /\ extracted_info = D([extracted |-> D(<<>>), is_complete |-> B(TRUE)])
    /\ before.current_section = "medications"
    /\ Current.current_section = "medications"
    /\ ~Current.completion_status["medications"]
    /\ ~data_updated

\* C15: a merge for a list section with is_complete true that adds no entry
\* to the list still sets the flag of the section and moves current_section
\* on.
C15_CompletesWithoutNewData ==
    (/\ pc = "respond"
     /\ before.current_section \in ListFields
     /\ ResultIsComplete
     /\ ~DataChanged(before, Current)) =>
        /\ Current.completion_status[before.current_section]
        /\ Current.current_section # before.current_section

\* The items of the extraction name an entry the list already holds, and
\* the section is completed.
C15_Witness ==
    /\ pc = "respond"
    /\ before.current_section = "medications"
    /\ ResultIsComplete
    /\ NewItems(extracted_info.d["extracted"]) # <<>>
    /\ before.medications # <<>>
    /\ Current.medications = before.medications
    /\ Current.completion_status["medications"]
    /\ Current.current_section = "allergies"

\* C16: a merge into allergies that already hold a concrete entry does not
\* append the sentinel "Unknown".
C16_SentinelNotAppended ==
    (/\ pc = "respond"
     /\ before.current_section = "allergies"
     /\ \E i \in 1..Len(before.allergies) : before.allergies[i] # Unknown) =>
        \A i \in (Len(before.allergies) + 1)..Len(Current.allergies) :
            Current.allergies[i] # Unknown

\* C17: the step that calls extract_information leaves every record as it
\* was, whatever the message and whatever the generator does.
C17_ExtractLeavesRecord ==
    [][pc = "extract" => patient_histories' = patient_histories]_vars

\* The extraction has returned the name and the age of the patient and the
\* record does not hold them yet.
C17_Witness ==
    /\ pc = "merge"
    /\ gen = "ok"
    /\ Current.current_section = "basic_info"
    /\ Get(extracted_info.d["extracted"], "name", Null) = Str("John")
    /\ Get(extracted_info.d["extracted"], "age", Null) = N(30000)
    /\ Current.name = Null
    /\ Current.age = Null

\* C20: the record is not written while the extraction runs, and a merge
\* that is aborted by an exception leaves the record as it was.
C20_AbortedTurnLeavesRecord ==
    [][/\ pc = "extract" => patient_histories' = patient_histories
       /\ (pc = "merge" /\ pc' = "idle") => patient_histories' = patient_histories]_vars

\* The coroutine of request i has started and has not returned
InProgress(i) == tasks[i].status \notin {"pending", "done"}

\* C18: no two requests for the same patient are in progress together; a
\* turn runs from its clean to its merge with no other turn of that patient
\* started, and no list has an entry twice.
C18_OneTurnPerPatient ==
    /\ \A i, j \in DOMAIN tasks :
          (/\ i # j
           /\ tasks[i].patient_id = tasks[j].patient_id
           /\ InProgress(i)) => ~InProgress(j)
    /\ \A p \in Known : \A f \in ListFields : NoDuplicates(patient_histories[p][f])

\* A turn of a patient is about to merge an entry its list does not hold,
\* while a second request for the same patient waits.
C18_Witness ==
    /\ pc = "merge"
    /\ gen = "ok"
    /\ Current.current_section = "medications"
    /\ Current.medications = <<>>
    /\ \E i, j \in DOMAIN tasks :
          /\ tasks[i].status = "running"
          /\ tasks[j].status = "pending"
          /\ tasks[i].patient_id = request.patient_id
          /\ tasks[j].patient_id = request.patient_id

\* C19: a step of a turn changes or creates the record of its own patient
\* only; no record is dropped, and the record a turn starts with is the
\* cleaned record the store held for the id, not a new one.
C19_TurnsAreIndependent ==
    [][/\ Known \subseteq DOMAIN patient_histories'
       /\ Cardinality({q \in DOMAIN patient_histories' :
                         q \notin Known \/ patient_histories'[q] # patient_histories[q]})
            <= 1
       /\ pc # "idle" =>
             \A q \in DOMAIN patient_histories' \ {request.patient_id} :
                 q \in Known /\ patient_histories'[q] = patient_histories[q]
       /\ pc = "idle" =>
             \A q \in Known :
                 patient_histories'[q] \in {patient_histories[q],
                                            clean_patient_history(patient_histories[q]).h}
      ]_vars

\* A turn of p1 has added a medication; p2, whose basic information an
\* earlier turn filled in, has none.
C19_Witness ==
    /\ pc = "respond"
    /\ request.patient_id = "p1"
    /\ before.medications = <<>>
    /\ Current.medications = <<Str("a")>>
    /\ "p2" \in Known
    /\ patient_histories["p2"].name = Str("John")
    /\ patient_histories["p2"].current_section = "medications"
    /\ patient_histories["p2"].medications = <<>>

\* The generator's text of the end-to-end example: a name, no age, the
\* weight in pounds, and is_complete claimed
JohnInPounds ==
    Reply(D([name |-> Str("John"), age |-> Null, gender |-> Null, height |-> Null,
             weight |-> S(<<"1", "5", "0", " ", "l", "b", "s">>)]), Claims(TRUE))

\* C21: after the extraction and the merge of that text in basic_info the
\* record has the name and the weight 68.04, the result is not complete and
\* its clarification message names the age, basic_info is not complete and
\* stays the active section.
C21_EndToEndBasicInfo ==
    (pc = "respond" /\ llm_response = JohnInPounds) =>
        /\ Current.name = Str("John")
        /\ Current.weight = N(68040)
        /\ extracted_info.d["is_complete"] = B(FALSE)
        /\ "age" \in Range(extracted_info.d["clarification_message"].s)
        /\ ~Current.completion_status["basic_info"]
        /\ Current.current_section = "basic_info"

\* The turn of the example has run on a new record.
C21_Witness ==
    /\ pc = "respond"
    /\ llm_response = JohnInPounds
    /\ before.name = Null
    /\ before.weight = Null
    /\ Current.name = Str("John")
    /\ Current.weight = N(68040)
    /\ data_updated

\* The payload of the result, and the payload the generator sent
Extracted == extracted_info.d["extracted"]

Generated == llm_response.doc.d["extracted"]

\* C22: the weight of the result for basic_info is the number of kilograms
\* the generator's weight stands for, rounded to two decimals: a number as
\* it is, a text by its first number, times 0.453592 when the text names
\* pounds.
C22_WeightInKilograms ==
    (pc = "extracted" /\ gen = "ok" /\ before.current_section = "basic_info") =>
        \A c \in WeightCases :
            Generated.d["weight"] = c.weight => Extracted.d["weight"] = N(c.kg)

\* The generator wrote "150 lbs" and the result holds 68.04.
C22_Witness ==
    /\ pc = "extracted"
    /\ gen = "ok"
    /\ Generated.d["weight"] = S(<<"1", "5", "0", " ", "l", "b", "s">>)
    /\ Extracted.d["weight"] = N(68040)

\* The sentences of the code's messages that ask for the unit of the weight
UnitRequests ==
    { "Please provide weight in kg or lbs (e.g., '70 kg' or '150 lbs')",
      "For weight, specify units (kg or lbs)." }

AsksForUnits(message) ==
    message.t = "str" /\ Range(message.s) \cap UnitRequests # {}

\* The generator's weight has no number in it or is neither text nor number
UnreadableWeight ==
    /\ pc = "extracted"
    /\ gen = "ok"
    /\ before.current_section = "basic_info"
    /\ Generated.d["weight"] \in UnreadableWeights

\* The weight is cleared, clarification is asked for, and the other fields
\* of the payload are the generator's
WeightCleared ==
    /\ Extracted.d["weight"] = Null
    /\ extracted_info.d["needs_clarification"] = B(TRUE)
    /\ Has(extracted_info, "clarification_message")
    /\ \A f \in {"name", "age", "gender", "height"} : Extracted.d[f] = Generated.d[f]

\* C29 as the specification words it: when the weight cannot be read, the
\* weight is null, needs_clarification is true, the clarification message
\* asks for the unit, and the other fields are left.
C29_UnreadableWeightAsksUnits ==
    UnreadableWeight =>
        WeightCleared /\ AsksForUnits(extracted_info.d["clarification_message"])

\* C29, amended: the message asks for the unit unless the generator sent a
\* clarification_message of its own, which is kept.
C29_UnreadableWeightCleared ==
    UnreadableWeight =>
        /\ WeightCleared
        /\ IF Has(llm_response.doc, "clarification_message")
           THEN extracted_info.d["clarification_message"]
                    = llm_response.doc.d["clarification_message"]
           ELSE AsksForUnits(extracted_info.d["clarification_message"])

\* The generator wrote "heavy" for a patient with name and age: the result
\* has no weight and the message of _normalize_weight.
C29_Witness ==
    /\ UnreadableWeight
    /\ Generated.d["weight"] = S(<<"h", "e", "a", "v", "y">>)
    /\ Generated.d["age"] = N(30000)
    /\ ~Has(llm_response.doc, "clarification_message")
    /\ Extracted.d["weight"] = Null
    /\ extracted_info.d["clarification_message"]
         = S(<<"Please provide weight in kg or lbs (e.g., '70 kg' or '150 lbs')">>)

\* The generator's text is a JSON object with an 'extracted' key: the text
\* _parse_response hands to the normalizer
Normalized ==
    validate_and_normalize_extracted_data(llm_response.doc, before.current_section)

ReachesNormalizer ==
    /\ pc = "respond"
    /\ llm_response # Null
    /\ "doc" \in DOMAIN llm_response
    /\ llm_response.doc.t = "dict"
    /\ Has(llm_response.doc, "extracted")

\* C23: the normalizer returns for every parsed input, with the 'extracted'
\* key present; an 'extracted' that is not an object becomes the empty shape
\* of the section.
C23_NormalizerNeverFails ==
    ReachesNormalizer =>
        /\ ~Normalized.exc
        /\ Has(Normalized.v, "extracted")
        /\ llm_response.doc.d["extracted"].t # "dict" =>
              Normalized.v.d["extracted"] = Placeholder(before.current_section)

\* C24: for basic_info the keys of the normalizer's 'extracted' are exactly
\* name, age, gender, height and weight.
C24_ExactlyFiveFields ==
    (ReachesNormalizer /\ before.current_section = "basic_info") =>
        DOMAIN Normalized.v.d["extracted"].d = Range(BasicFields)

\* C25: for a record whose current_section is None, extract_information
\* returns a result with is_complete false and nothing to merge, whatever
\* the generator returned.
C25_NoSectionGivesNoOp ==
    (pc = "extracted" /\ before.current_section = None) =>
        /\ extracted_info.d["is_complete"] = B(FALSE)
        /\ NewItems(Extracted) = <<>>

\* C26: after a merge into basic_info each of name, age, gender, height and
\* weight holds the extracted value when that value is present and not None,
\* and the value the record had before the merge otherwise.
C26_LastWriteWins ==
    (pc = "respond" /\ before.current_section = "basic_info") =>
        \A i \in 1..Len(BasicFields) :
            LET key == BasicFields[i]
            IN  Current[key] =
                    IF /\ Extracted.t = "dict"
                       /\ Has(Extracted, key)
                       /\ Extracted.d[key] # Null
                    THEN Extracted.d[key]
                    ELSE before[key]

\* A merge that overwrites the name John with the empty string and keeps the
\* weight 68.04, for which the extraction carries None
C26_Witness ==
    /\ pc = "respond"
    /\ before.current_section = "basic_info"
    /\ before.name = Str("John") /\ Current.name = S(<<>>)
    /\ Extracted.d["weight"] = Null
    /\ before.weight = N(68040) /\ Current.weight = N(68040)

\* The flag of the generator's JSON, False when the JSON does not carry it
GeneratorFlag(flag) == Get(llm_response.doc, flag, B(FALSE))

\* C27: for a section other than basic_info the is_complete and
\* needs_clarification of the result of extract_information are the flags of
\* the generator's JSON, False when absent; a result with is_complete true
\* marks the section complete and moves current_section to the next
\* incomplete section, with an empty items list as well.
C27_GeneratorFlagsAccepted ==
    (pc = "respond" /\ gen = "ok" /\ before.current_section # "basic_info") =>
        /\ extracted_info.d["is_complete"] = GeneratorFlag("is_complete")
        /\ extracted_info.d["needs_clarification"] = GeneratorFlag("needs_clarification")
        /\ GeneratorFlag("is_complete") = B(TRUE) =>
              /\ Current.completion_status[before.current_section]
              /\ Current.current_section = NextIncomplete(Current.completion_status)
              /\ Current.current_section # before.current_section

\* The generator claims medications complete with an empty items list, and
\* the record moves on to allergies
C27_Witness ==
    /\ pc = "respond"
    /\ gen = "ok"
    /\ before.current_section = "medications"
    /\ llm_response = Reply(D([items |-> L(<<>>)]), Claims(TRUE))
    /\ Current.completion_status["medications"]
    /\ Current.current_section = "allergies"

\* C28: the call get_completion(messages, temperature = 0.1, max_retries = 3)
\* that extract_information makes for a non-empty message is accepted by the
\* chatbot's get_completion, and a text it returns that is valid JSON for the
\* section gives a result without 'error'.
C28_CompletionCallAccepted ==
    (pc = "merge" /\ Truthy(request.message)) =>
        /\ gen # "type_error"
        /\ gen = "ok" => ~Has(extracted_info, "error")

\* The string C30 gives for a medication item: the name, then
\* "Dosage: <dosage>" and "Frequency: <frequency>" for the sub-fields present
LabelledMedication(med) ==
    Joined(med.d["name"],
           Labelled(med, "dosage", "Dosage: ") \o Labelled(med, "frequency", "Frequency: "))

\* C30: a medication item that is an object with a name is stored as its
\* name, "Dosage: <dosage>" and "Frequency: <frequency>" joined with " - ".
C30_MedicationLabelled ==
    (pc = "respond" /\ before.current_section = "medications" /\ data_updated) =>
        \A i \in 1..Len(NewItems(Extracted)) :
            LET med == NewItems(Extracted)[i]
            IN  (med.t = "dict" /\ Present(med, "name") /\ med.d["name"].t = "str") =>
                    \E j \in 1..Len(Current.medications) :
                        Current.medications[j] = LabelledMedication(med).v

\* The attempts of the call that failed
Failures == Len(SelectSeq(completion.log, LAMBDA o : o = Raised))

CompletionSafe ==
    /\ Len(completion.log) <= completion.max_retries
    /\ completion.status = "returned" =>
          /\ completion.log # <<>>
          /\ completion.v = completion.log[Len(completion.log)]
          /\ \A i \in 1..(Len(completion.log) - 1) : completion.log[i] = Raised
          /\ completion.v # Raised
    /\ completion.status = "raised" =>
          /\ Len(completion.log) = completion.max_retries
          /\ \A i \in 1..Len(completion.log) : completion.log[i] = Raised
    /\ (completion.status \in {"returned", "raised"}
        /\ completion.max_retries = max_retries) =>
          LET r == get_completion_loop(0, Failures, completion.v)
          IN  /\ r.exc = (completion.status = "raised")
              /\ r.v = completion.v
              /\ r.attempts = Len(completion.log)

\* C31: get_completion calls the client at most max_retries times, returns
\* the content of the first call that succeeds and calls no more after it,
\* raises only when max_retries calls have failed, and always ends.
C31_RetryLoopEnds ==
    /\ []CompletionSafe
    /\ [][completion.status # "running" => completion' = completion]_vars
    /\ <>(completion.status \in {"returned", "raised"})

\* Two calls fail and the third returns a text
C31_Witness ==
    /\ completion.status = "returned"
    /\ completion.max_retries = 3
    /\ Len(completion.log) = 3
    /\ completion.log[1] = Raised /\ completion.log[2] = Raised
    /\ completion.v = Str("Sorry, I cannot help.")

CompletedCount(history) ==
    Cardinality({i \in 1..Len(CanonicalOrder) :
                    history.completion_status[CanonicalOrder[i]]})

\* The place of a section in the order; None comes after the last section
Position(section) ==
    IF section = None THEN Len(CanonicalOrder) + 1
    ELSE CHOOSE i \in 1..Len(CanonicalOrder) : CanonicalOrder[i] = section

CompletedIsPrefix(history) ==
    /\ DOMAIN history.completion_status = Range(CanonicalOrder)
    /\ \A i \in 1..Len(CanonicalOrder) :
          history.completion_status[CanonicalOrder[i]] <=> i <= CompletedCount(history)
    /\ history.current_section \in Range(CanonicalOrder) \cup {None}
    /\ Position(history.current_section) = CompletedCount(history) + 1

\* C32: in every state the completed sections of a record are a prefix of
\* the order and current_section is the first section after that prefix
\* (None after the last); no step moves current_section backward.
C32_CompletedPrefix ==
    /\ [](\A p \in Known : CompletedIsPrefix(patient_histories[p]))
    /\ [][\A p \in Known :
             Position(patient_histories'[p].current_section)
                >= Position(patient_histories[p].current_section)]_vars

\* Three sections are complete and the record is at chronic_conditions
C32_Witness ==
    /\ "p1" \in Known
    /\ CompletedCount(patient_histories["p1"]) = 3
    /\ patient_histories["p1"].current_section = "chronic_conditions"
    /\ pc = "idle"

Terminal(p) ==
    /\ p \in Known
    /\ patient_histories[p].current_section = None

\* C33: a record without current section keeps it None with every flag
\* true, and a turn for it ends at once with the completion message and
\* data_updated false: no extraction, no merge, no new timestamp.
C33_TerminalAbsorbing ==
    [][/\ \A p \in PatientIds :
             Terminal(p) => /\ patient_histories'[p].current_section = None
                            /\ AllComplete(patient_histories'[p])
       /\ (pc = "idle" /\ \A p \in PatientIds : Terminal(p)) =>
             /\ pc' = "idle"
             /\ chat_response' = Completed
             /\ ~chat_response'.data_updated
             /\ gen' = "none" /\ extracted_info' = Null /\ llm_response' = Null
             /\ clock' = clock
             /\ \A p \in PatientIds :
                   patient_histories'[p].last_updated = patient_histories[p].last_updated
      ]_vars

\* A turn for a record without current section has been answered with the
\* completion message
C33_Witness ==
    /\ Terminal("p1")
    /\ pc = "idle"
    /\ chat_response = Completed

Active(p) == p \in Known /\ patient_histories[p].current_section # None

\* The extraction of the turn being handled is a result without error that
\* has is_complete true
CompletingResult ==
    /\ pc = "merge"
    /\ gen = "ok"
    /\ ~Has(extracted_info, "error")
    /\ ResultIsComplete

\* C34: when the record is created and, as long as it has a current section,
\* a turn whose extraction is valid with is_complete true always comes, the
\* record reaches current_section None.
C34_Progress ==
    (<>("p1" \in Known) /\ (Active("p1") ~> CompletingResult)) => <>Terminal("p1")

\* The turn is at the merge of a basic_info extraction in which the generator
\* gave a name, an age and a weight that cannot be read
NamedWithUnreadableWeight ==
    /\ pc = "merge"
    /\ gen = "ok"
    /\ Current.current_section = "basic_info"
    /\ Generated.t = "dict"
    /\ \A f \in {"name", "age"} :
          Has(Generated, f) /\ Generated.d[f] \notin {Null, S(<<>>)}
    /\ Has(Generated, "weight")
    /\ Generated.d["weight"] \in UnreadableWeights

\* C35: for basic_info with name and age present and a weight that cannot be
\* read, the result has is_complete true and needs_clarification true, and
\* the merge marks basic_info complete and moves the record to medications
\* with the weight it had.
C35_CompletesDespiteClarification ==
    [][NamedWithUnreadableWeight =>
          /\ extracted_info.d["is_complete"] = B(TRUE)
          /\ extracted_info.d["needs_clarification"] = B(TRUE)
          /\ pc' = "respond"
          /\ patient_histories'[request.patient_id].completion_status["basic_info"]
          /\ patient_histories'[request.patient_id].current_section = "medications"
          /\ patient_histories'[request.patient_id].weight = Current.weight
      ]_vars

\* The record had the weight 68.04 when the generator sent "heavy", and it is
\* at medications with that weight while the result asks for clarification
C35_Witness ==
    /\ pc = "respond"
    /\ gen = "ok"
    /\ before.current_section = "basic_info"
    /\ Generated.t = "dict"
    /\ Has(Generated, "weight")
    /\ Generated.d["weight"] = S(<<"h", "e", "a", "v", "y">>)
    /\ extracted_info.d["needs_clarification"] = B(TRUE)
    /\ before.weight = N(68040)
    /\ Current.weight = N(68040)
    /\ Current.current_section = "medications"

====
